---- MODULE Spec2Model ----
(***************************************************************************)
(* Login-code lifecycle of the portfolio backend: AuthService              *)
(* (requestLoginCode, generateLoginToken, verifyLoginCode,                 *)
(* createUniqueCode), UsersService.create, UsersController.create and      *)
(* JwtStrategy.validate, over the two tables "users" and "login_tokens";   *)
(* MailService.sendLoginTokenEmail and                                     *)
(* ContactService.handleContactSubmission over the mail environment.       *)
(*                                                                         *)
(* Every await on the row store is one step of a request; the mail calls   *)
(* that follow a store call touch no table and are taken in the same step  *)
(* as that store call.  Time is counted in hours.  SpecCode takes the      *)
(* passes of createUniqueCode one by one.                                  *)
(***************************************************************************)
EXTENDS Integers, Sequences, FiniteSets, TLC

\* ---------------------------------------------------------------- bounds
MaxTokens == 2        \* rows the login_tokens table may hold
MaxTime == 2          \* hours the clock may advance
NumCodeValues == 1    \* distinct values randomInt can spell per code length
MaxRaceTime == 1      \* hours the clock may advance while requests interleave

ttlHours == 1         \* LOGIN_CODE_TTL_HOURS, the configured lifetime of a code

\* ------------------------------------------------------ program constants
maxTries == 10
defaultCodeLength == 6
fallbackCodeLength == 8

Procs == {1, 2}       \* HTTP requests that may be in flight together

\* undefined / null, one per type
NoValue == <<"undefined">>        \* string
NoUser == [id |-> 0]
NoToken == [id |-> 0]
NoMetadata == [absent |-> TRUE]
NoResult == [absent |-> TRUE]
NoCode == <<0, 0>>
NoPayload == [sub |-> 0]
Null == 0 - 1                     \* timestamp

\* ---------------------------------------------------------------- strings
\* A string is the sequence of its characters.
Lower(c) == IF c = "A" THEN "a" ELSE IF c = "B" THEN "b" ELSE c

ToLowerCase(s) == [i \in 1..Len(s) |-> Lower(s[i])]

RECURSIVE TrimStart(_)
TrimStart(s) == IF s # <<>> /\ Head(s) = " " THEN TrimStart(Tail(s)) ELSE s

RECURSIVE TrimEnd(_)
TrimEnd(s) ==
  IF s # <<>> /\ s[Len(s)] = " " THEN TrimEnd(SubSeq(s, 1, Len(s) - 1)) ELSE s

Trim(s) == TrimEnd(TrimStart(s))

normalizeEmailNoTrim(value) == ToLowerCase(value)

normalizeEmail(value) == ToLowerCase(Trim(value))

\* value?.trim() || undefined
TrimOrUndefined(v) ==
  IF v = NoValue THEN NoValue
  ELSE IF Trim(v) = <<>> THEN NoValue ELSE Trim(v)

\* value?.trim().toLowerCase() || undefined
TrimLowerOrUndefined(v) ==
  IF v = NoValue THEN NoValue
  ELSE IF Trim(v) = <<>> THEN NoValue ELSE ToLowerCase(Trim(v))

\* value?.trim()
OptTrim(v) == IF v = NoValue THEN NoValue ELSE Trim(v)

\* ----------------------------------------------------------------- inputs
RawEmails == { <<"a">>, <<" ", "A">>, <<"b">> }

\* preferredLanguage: sanitizedMetadata.language ?? 'pl'
DefaultLanguage == <<"p">>

Metadata(firstName, lastName, language) ==
  [firstName |-> firstName, lastName |-> lastName, language |-> language]

\* the metadata argument: absent, a blank first name, a full profile
MetadataInputs ==
  { NoMetadata,
    Metadata(<<" ">>, <<"J">>, NoValue),
    Metadata(<<"J">>, <<"J">>, <<" ", "E">>) }

CreateUserDtos(emails) ==
  [email : emails, firstName : {<<"J", " ">>}, lastName : {NoValue},
   preferredLanguage : {NoValue}]

\* the payloads of session tokens signed with JWT_SECRET: the sub may name a
\* row the users table does not hold
PayloadSubs == {1, 2}

JwtPayloads(emails) == [sub : PayloadSubs, email : emails]

generateCode(length) == { <<length, n>> : n \in 1..NumCodeValues }

AllCodes == generateCode(defaultCodeLength) \cup generateCode(fallbackCodeLength)


\* ------------------------------------------------------------------ state
VARIABLES
  users,      \* table "users": sequence of rows, id = position
  tokens,     \* table "login_tokens": sequence of rows, id = position
  now,        \* Date.now(), in hours
  pc,         \* position of each request in its handler
  call,       \* arguments, locals and outcome of each request
  pre,        \* the tables as the one request in flight found them
  verified,   \* <<user email, code>> pairs a verification has succeeded for
  mail,       \* the MailService: its environment and what its last send did
  emailed     \* <<user email, code>>: the code the user's last completed
              \* requestCode delivered, until the user's next requestCode

vars == <<users, tokens, now, pc, call, pre, verified, mail, emailed>>

\* raw is the metadata argument as given (metadata holds it sanitized);
\* readAt is the Date.now() the request compared expiries with; replay tells
\* that a verification started after one with the same email and code had
\* succeeded; sent lists the mails the request attempted, in order
IdleCall ==
  [op |-> "none", email |-> NoValue, metadata |-> NoMetadata, code |-> NoCode,
   raw |-> NoMetadata, payload |-> NoPayload, attempt |-> 0,
   candidate |-> NoCode,
   user |-> NoUser, loginToken |-> NoToken, readAt |-> Null,
   replay |-> FALSE, sent |-> <<>>, error |-> "none", result |-> NoResult]

NoSnapshot == [users |-> <<>>, tokens |-> <<>>]

\* the requests draw the outcome of a mail from mailOutcomes; the MailService
\* itself is modelled apart, under SpecMail
NoMailer == [absent |-> TRUE]

Init ==
  /\ users = <<>>
  /\ tokens = <<>>
  /\ now = 0
  /\ pc = [p \in Procs |-> "idle"]
  /\ call = [p \in Procs |-> IdleCall]
  /\ pre = NoSnapshot
  /\ verified = {}
  /\ mail = NoMailer
  /\ emailed = {}

\* ------------------------------------------------------------ error names
NoAccount == "BadRequest: Nie znaleziono konta dla podanego adresu."
CreateUserFailed == "Error: Nie udalo sie utworzyc konta uzytkownika."
InvalidCodeOrEmail == "Unauthorized: Nieprawidlowy kod lub e-mail."
CodeAlreadyUsed == "Unauthorized: Kod zostal juz wykorzystany."
CodeExpired == "Unauthorized: Kod wygasl."
UserExists == "Conflict: Uzytkownik z takim e-mailem juz istnieje."
UniqueViolation == "QueryFailedError: UNIQUE constraint failed"
MailFailed == "Error: mail transport failed"

UserNotFound == "NotFound: Uzytkownik nie istnieje."

\* verifyLoginCode line 279: the error for an email without an account
UnknownEmailError == InvalidCodeOrEmail

\* ------------------------------------------------------------- row store
Rows(table) == { table[i] : i \in 1..Len(table) }

\* usersRepository.findOne({ where: { id } })
FindUserById(table, id) ==
  IF id \in 1..Len(table) THEN table[id] ELSE NoUser

\* usersRepository.findOne({ where: { email } })
FindUserByEmail(table, email) ==
  IF \E u \in Rows(table) : u.email = email
  THEN CHOOSE u \in Rows(table) : u.email = email
  ELSE NoUser

\* UNIQUE constraint on users.email
EmailTaken(table, email) == \E u \in Rows(table) : u.email = email

NoCodeExists(table, code) == FALSE

\* loginTokenRepository.exists({ where: { code } })
CodeExists(table, code) == \E t \in Rows(table) : t.code = code

CodeNeverTaken(table, code) == FALSE

\* UNIQUE constraint on login_tokens.code
CodeTaken(table, code) == \E t \in Rows(table) : t.code = code

\* findOne({ where: { userId, revoked: false, consumedAt: undefined } }):
\* a where-property that is undefined is left out of the query.
ExistingTokens(table, userId) ==
  { t \in Rows(table) : t.userId = userId /\ ~t.revoked }

MatchingTokensOfAnyUser(table, userId, code) ==
  { t \in Rows(table) : t.code = code /\ ~t.revoked }

\* findOne({ where: { userId, code, revoked: false } })
MatchingTokens(table, userId, code) ==
  { t \in Rows(table) : t.userId = userId /\ t.code = code /\ ~t.revoked }

RevokeNothing(table, userId) == table

\* UPDATE login_tokens SET revoked = true
\*   WHERE userId = :userId AND revoked = false AND consumedAt IS NULL
RevokeActive(table, userId) ==
  [i \in 1..Len(table) |->
     IF table[i].userId = userId /\ ~table[i].revoked
        /\ table[i].consumedAt = Null
     THEN [table[i] EXCEPT !.revoked = TRUE]
     ELSE table[i]]

ConsumeNothing(table, id, at) == table

ConsumeWithoutRevoke(table, id, at) ==
  [table EXCEPT ![id] = [@ EXCEPT !.consumedAt = at]]

\* loginToken.consumedAt = new Date(); loginToken.revoked = true; save(loginToken)
ConsumeToken(table, id, at) ==
  [table EXCEPT ![id] = [@ EXCEPT !.consumedAt = at, !.revoked = TRUE]]

\* createUniqueCode, lines 328-342: the codes the loop can return when it
\* has made "attempt" passes.  A pass draws a fresh generateCode(): a draw
\* that is not in the table is returned, a draw that is goes to the next pass.
RECURSIVE createUniqueCode(_, _)
createUniqueCode(table, attempt) ==
  IF attempt < maxTries
  THEN LET drawn == generateCode(defaultCodeLength)
           taken == { code \in drawn : CodeExists(table, code) }
       IN (drawn \ taken)
          \cup (IF taken # {} THEN createUniqueCode(table, attempt + 1) ELSE {})
  ELSE generateCode(fallbackCodeLength)

NewToken(table, code, user, at) ==
  [id |-> Len(table) + 1, code |-> code, userId |-> user.id,
   expiresAt |-> at + ttlHours, consumedAt |-> Null, revoked |-> FALSE]

InsertTokenRevokingOthers(table, token) ==
  Append(RevokeActive(table, token.userId), token)

\* generateLoginToken line 91: loginTokenRepository.save(token), an INSERT
InsertToken(table, token) == Append(table, token)

NewUser(table, email, firstName, lastName, language) ==
  [id |-> Len(table) + 1, email |-> email, firstName |-> firstName,
   lastName |-> lastName, preferredLanguage |-> language]

\* ------------------------------------------------------- requestLoginCode
sanitizedMetadata(metadata) ==
  IF metadata = NoMetadata THEN NoMetadata
  ELSE [firstName |-> TrimOrUndefined(metadata.firstName),
        lastName |-> TrimOrUndefined(metadata.lastName),
        language |-> TrimLowerOrUndefined(metadata.language)]

HasEitherName(m) ==
  m # NoMetadata /\ (m.firstName # NoValue \/ m.lastName # NoValue)

\* sanitizedMetadata?.firstName && sanitizedMetadata?.lastName
HasProfile(m) ==
  m # NoMetadata /\ m.firstName # NoValue /\ m.lastName # NoValue

WithProfileUnchecked(user, m) ==
  IF m = NoMetadata THEN user
  ELSE [user EXCEPT !.firstName = m.firstName, !.lastName = m.lastName]

\* the Partial<User> "updates": the user with the supplied names written in
WithProfile(user, m) ==
  IF m = NoMetadata THEN user
  ELSE [user EXCEPT
          !.firstName = IF m.firstName # NoValue /\ m.firstName # user.firstName
                        THEN m.firstName ELSE @,
          !.lastName = IF m.lastName # NoValue /\ m.lastName # user.lastName
                       THEN m.lastName ELSE @]

LanguageDiffers(user, m) ==
  m # NoMetadata /\ m.language # NoValue /\ m.language # user.preferredLanguage

\* where the handler goes next once it holds a user
AfterUser(user, m) ==
  IF WithProfile(user, m) # user THEN "rq_updateProfile"
  ELSE IF LanguageDiffers(user, m) THEN "rq_updateLanguage"
  ELSE "rq_findToken"

StillValidReversed(token, at) == token.expiresAt < at

\* existingToken.expiresAt.getTime() > now
StillValid(token, at) == token.expiresAt > at

NeverExpired(token, at) == FALSE

\* loginToken.expiresAt.getTime() < Date.now()
Expired(token, at) == token.expiresAt < at

\* one attempt of mailService.sendLoginTokenEmail
LoginMail(user, code, isReminder, ok) ==
  [kind |-> "login-code", to |-> user.email, code |-> code,
   isReminder |-> isReminder, action |-> "none", ok |-> ok]

\* one attempt of mailService.sendAccessRequestNotification
AdminMail(action, ok) ==
  [kind |-> "access-request", to |-> <<"admin">>, code |-> NoCode,
   isReminder |-> FALSE, action |-> action, ok |-> ok]

\* a requestCode that returned its result after its login-code mail went out
Delivered(c) ==
  /\ c.op = "request" /\ c.result # NoResult
  /\ c.sent # <<>> /\ c.sent[1].kind = "login-code" /\ c.sent[1].ok

\* the tables as request p finds them, kept while p is the only one in flight
Snapshot(p) ==
  IF \A q \in Procs \ {p} : pc[q] = "idle"
  THEN [users |-> users, tokens |-> tokens]
  ELSE NoSnapshot

Finish(p, c) ==
  /\ pc' = [pc EXCEPT ![p] = "done"]
  /\ call' = [call EXCEPT ![p] = c]

Goto(p, label, c) ==
  /\ pc' = [pc EXCEPT ![p] = label]
  /\ call' = [call EXCEPT ![p] = c]


\* requestLoginCode, lines 119-164: normalize, look the user up, sanitize
StartRequest(p, email, metadata) ==
  /\ pc[p] = "idle"
  /\ pre' = Snapshot(p)
  /\ LET m == sanitizedMetadata(metadata)
         user == FindUserByEmail(users, normalizeEmail(email))
         c == [IdleCall EXCEPT !.op = "request", !.email = email,
                               !.raw = metadata, !.metadata = m,
                               !.user = user]
     IN IF user = NoUser /\ HasProfile(m) THEN Goto(p, "rq_createUser", c)
        ELSE IF user = NoUser THEN Finish(p, [c EXCEPT !.error = NoAccount])
        ELSE Goto(p, AfterUser(user, m), c)
  /\ emailed' = { e \in emailed : e[1] # normalizeEmail(email) }
  /\ UNCHANGED <<users, tokens, now, verified, mail>>

\* lines 143-157: usersRepository.save(create({...}))
RqCreateUser(p) ==
  /\ pc[p] = "rq_createUser"
  /\ LET c == call[p]
         m == c.metadata
         email == normalizeEmail(c.email)
         user == NewUser(users, email, m.firstName, m.lastName,
                         IF m.language # NoValue THEN m.language
                         ELSE DefaultLanguage)
     IN IF EmailTaken(users, email)
        THEN /\ Finish(p, [c EXCEPT !.error = CreateUserFailed])
             /\ UNCHANGED users
        ELSE /\ users' = Append(users, user)
             /\ Goto(p, AfterUser(user, m), [c EXCEPT !.user = user])
  /\ UNCHANGED <<tokens, now, pre, verified, mail, emailed>>

\* lines 166-182: usersRepository.update(user.id, updates)
RqUpdateProfile(p) ==
  /\ pc[p] = "rq_updateProfile"
  /\ LET c == call[p]
         user == WithProfile(c.user, c.metadata)
     IN /\ users' = [users EXCEPT ![user.id] =
                       [@ EXCEPT !.firstName = user.firstName,
                                 !.lastName = user.lastName]]
        /\ Goto(p, IF LanguageDiffers(user, c.metadata)
                   THEN "rq_updateLanguage" ELSE "rq_findToken",
                [c EXCEPT !.user = user])
  /\ UNCHANGED <<tokens, now, pre, verified, mail, emailed>>

\* lines 189-194: usersRepository.update(user.id, { preferredLanguage })
RqUpdateLanguage(p) ==
  /\ pc[p] = "rq_updateLanguage"
  /\ LET c == call[p]
         language == c.metadata.language
     IN /\ users' = [users EXCEPT ![c.user.id].preferredLanguage = language]
        /\ Goto(p, "rq_findToken",
                [c EXCEPT !.user.preferredLanguage = language])
  /\ UNCHANGED <<tokens, now, pre, verified, mail, emailed>>

RemindAsNewToken(p, c, existingToken, okLogin, okAdmin) ==
  Finish(p, [c EXCEPT
    !.sent = << LoginMail(c.user, existingToken.code, TRUE, okLogin),
                AdminMail("new-token", okAdmin) >>,
    !.result = [codeSent |-> FALSE, existingTokenValid |-> TRUE,
                validUntil |-> existingToken.expiresAt,
                resentExistingToken |-> TRUE]])

\* the result of the reminder branch, lines 209-239
Remind(p, c, existingToken, okLogin, okAdmin) ==
  Finish(p, [c EXCEPT
    !.sent = IF okLogin
             THEN << LoginMail(c.user, existingToken.code, TRUE, TRUE),
                     AdminMail("token-reminder", okAdmin) >>
             ELSE << LoginMail(c.user, existingToken.code, TRUE, FALSE) >>,
    !.result = [codeSent |-> FALSE, existingTokenValid |-> TRUE,
                validUntil |-> existingToken.expiresAt,
                resentExistingToken |-> TRUE]])

\* lines 196-240: look for an unrevoked token; re-send it while it is valid
RqFindToken(p, mailOutcomes) ==
  /\ pc[p] = "rq_findToken"
  /\ LET c == [call[p] EXCEPT !.readAt = now]
         found == ExistingTokens(tokens, c.user.id)
     IN IF found = {}
        THEN Goto(p, "gen_revoke", c)
        ELSE \E existingToken \in found :
               IF StillValid(existingToken, now)
               THEN \E okLogin \in mailOutcomes, okAdmin \in mailOutcomes :
                      Remind(p, c, existingToken, okLogin, okAdmin)
               ELSE Goto(p, "gen_revoke", c)
  /\ UNCHANGED <<users, tokens, now, pre, verified, mail, emailed>>

\* generateLoginToken, lines 74-81
GenRevoke(p) ==
  /\ pc[p] = "gen_revoke"
  /\ tokens' = RevokeActive(tokens, call[p].user.id)
  /\ Goto(p, "gen_code", call[p])
  /\ UNCHANGED <<users, now, pre, verified, mail, emailed>>

\* createUniqueCode, lines 328-342.  Rows are never deleted, so a code that
\* collided at an earlier pass still collides at the last one: the passes of
\* the loop are taken together, at the time of the last exists() query.
GenCode(p) ==
  /\ pc[p] = "gen_code"
  /\ \E code \in createUniqueCode(tokens, 0) :
       Goto(p, "gen_save", [call[p] EXCEPT !.code = code])
  /\ UNCHANGED <<users, tokens, now, pre, verified, mail, emailed>>

MintedAdminRaises(p, c, token, okLogin, okAdmin) ==
  IF okLogin /\ c.op = "request" /\ ~okAdmin
  THEN Finish(p, [c EXCEPT
         !.sent = << LoginMail(c.user, token.code, FALSE, TRUE),
                     AdminMail("new-token", FALSE) >>,
         !.error = MailFailed])
  ELSE Finish(p, [c EXCEPT !.sent = << LoginMail(c.user, token.code, FALSE, okLogin) >>,
                           !.error = IF okLogin THEN "none" ELSE MailFailed])

MintedWithoutMail(p, c, token, okLogin, okAdmin) ==
  Finish(p, [c EXCEPT
    !.result = [codeSent |-> TRUE, existingTokenValid |-> FALSE,
                validUntil |-> token.expiresAt,
                resentExistingToken |-> FALSE]])

\* what the caller of generateLoginToken returns, lines 250-269 and
\* UsersController.create lines 20-32
Minted(p, c, token, okLogin, okAdmin) ==
  IF ~okLogin
  THEN Finish(p, [c EXCEPT
         !.sent = << LoginMail(c.user, token.code, FALSE, FALSE) >>,
         !.error = MailFailed])
  ELSE IF c.op = "request"
  THEN Finish(p, [c EXCEPT
         !.sent = << LoginMail(c.user, token.code, FALSE, TRUE),
                     AdminMail("new-token", okAdmin) >>,
         !.result = [codeSent |-> TRUE, existingTokenValid |-> FALSE,
                     validUntil |-> token.expiresAt,
                     resentExistingToken |-> FALSE]])
  ELSE Finish(p, [c EXCEPT
         !.sent = << LoginMail(c.user, token.code, FALSE, TRUE) >>,
         !.result = [user |-> c.user,
                     loginToken |-> [expiresAt |-> token.expiresAt]]])

\* generateLoginToken, lines 84-106: insert the token, then mail the code
GenSave(p, mailOutcomes) ==
  /\ pc[p] = "gen_save"
  /\ LET c == call[p]
         token == NewToken(tokens, c.code, c.user, now)
     IN IF CodeTaken(tokens, c.code)
        THEN /\ Finish(p, [c EXCEPT !.error = UniqueViolation])
             /\ UNCHANGED tokens
        ELSE /\ Len(tokens) < MaxTokens
             /\ tokens' = InsertToken(tokens, token)
             /\ \E okLogin \in mailOutcomes, okAdmin \in mailOutcomes :
                  Minted(p, c, token, okLogin, okAdmin)
  /\ UNCHANGED <<users, now, pre, verified, mail, emailed>>

\* verifyLoginCode, lines 273-280
StartVerify(p, email, code) ==
  /\ pc[p] = "idle"
  /\ pre' = Snapshot(p)
  /\ LET user == FindUserByEmail(users, normalizeEmail(email))
         c == [IdleCall EXCEPT !.op = "verify", !.email = email,
                               !.code = code, !.user = user,
                               !.replay = (<<normalizeEmail(email), code>>
                                           \in verified)]
     IN IF user = NoUser
        THEN Finish(p, [c EXCEPT !.error = UnknownEmailError])
        ELSE Goto(p, "vf_findToken", c)
  /\ UNCHANGED <<users, tokens, now, verified, mail, emailed>>

VfFindTokenLockingOut(p) ==
  /\ pc[p] = "vf_findToken"
  /\ LET c == [call[p] EXCEPT !.readAt = now]
         found == MatchingTokens(tokens, c.user.id, c.code)
     IN IF found = {}
        THEN /\ tokens' = RevokeActive(tokens, c.user.id)
             /\ Finish(p, [c EXCEPT !.error = InvalidCodeOrEmail])
        ELSE /\ UNCHANGED tokens
             /\ \E loginToken \in found :
                  IF loginToken.consumedAt # Null
                  THEN Finish(p, [c EXCEPT !.error = CodeAlreadyUsed])
                  ELSE IF Expired(loginToken, now)
                  THEN Finish(p, [c EXCEPT !.error = CodeExpired])
                  ELSE Goto(p, "vf_save", [c EXCEPT !.loginToken = loginToken])
  /\ UNCHANGED <<users, now, pre, verified, mail, emailed>>

\* lines 282-303
VfFindToken(p) ==
  /\ pc[p] = "vf_findToken"
  /\ LET c == [call[p] EXCEPT !.readAt = now]
         found == MatchingTokens(tokens, c.user.id, c.code)
     IN IF found = {}
        THEN Finish(p, [c EXCEPT !.error = InvalidCodeOrEmail])
        ELSE \E loginToken \in found :
               IF loginToken.consumedAt # Null
               THEN Finish(p, [c EXCEPT !.error = CodeAlreadyUsed])
               ELSE IF Expired(loginToken, now)
               THEN Finish(p, [c EXCEPT !.error = CodeExpired])
               ELSE Goto(p, "vf_save", [c EXCEPT !.loginToken = loginToken])
  /\ UNCHANGED <<users, tokens, now, pre, verified, mail, emailed>>

\* lines 304-325: save the consumed token, sign the session token
VfSave(p) ==
  /\ pc[p] = "vf_save"
  /\ LET c == call[p]
     IN /\ tokens' = ConsumeToken(tokens, c.loginToken.id, c.readAt)
        /\ verified' = verified \cup { <<c.user.email, c.code>> }
        /\ Finish(p, [c EXCEPT
             !.result = [accessToken |-> [sub |-> c.user.id,
                                          email |-> c.user.email],
                         expiresAt |-> now + ttlHours,
                         user |-> [id |-> c.user.id, email |-> c.user.email,
                                   firstName |-> c.user.firstName,
                                   lastName |-> c.user.lastName]]])
  /\ UNCHANGED <<users, now, pre, mail, emailed>>

lowerCasedEmail(dto) == ToLowerCase(dto.email)

\* UsersService.create line 19: dto.email.trim().toLowerCase()
normalizedEmail(dto) == ToLowerCase(Trim(dto.email))

\* UsersController.create -> UsersService.create, lines 19-27
StartSignup(p, dto) ==
  /\ pc[p] = "idle"
  /\ pre' = Snapshot(p)
  /\ LET existing == FindUserByEmail(users, normalizedEmail(dto))
         c == [IdleCall EXCEPT !.op = "signup", !.email = dto.email,
                               !.metadata = dto]
     IN IF existing # NoUser
        THEN Finish(p, [c EXCEPT !.error = UserExists])
        ELSE Goto(p, "su_save", c)
  /\ UNCHANGED <<users, tokens, now, verified, mail, emailed>>

\* UsersService.create, lines 29-36: usersRepository.save(user)
SuSave(p) ==
  /\ pc[p] = "su_save"
  /\ LET c == call[p]
         dto == c.metadata
         email == normalizedEmail(dto)
         user == NewUser(users, email, OptTrim(dto.firstName),
                         OptTrim(dto.lastName), OptTrim(dto.preferredLanguage))
     IN IF EmailTaken(users, email)
        THEN /\ Finish(p, [c EXCEPT !.error = UniqueViolation])
             /\ UNCHANGED users
        ELSE /\ users' = Append(users, user)
             /\ Goto(p, "gen_revoke", [c EXCEPT !.user = user])
  /\ UNCHANGED <<tokens, now, pre, verified, mail, emailed>>

\* JwtStrategy.validate line 46
Validated(user) == [userId |-> user.id, email |-> user.email]

\* JwtStrategy.validate, lines 26-29: look the user up by payload.sub
StartValidate(p, payload) ==
  /\ pc[p] = "idle"
  /\ pre' = Snapshot(p)
  /\ LET user == FindUserById(users, payload.sub)
         c == [IdleCall EXCEPT !.op = "validate", !.email = payload.email,
                               !.payload = payload, !.user = user]
     IN IF user # NoUser
        THEN Finish(p, [c EXCEPT !.result = Validated(user)])
        ELSE Goto(p, "jv_findByEmail", c)
  /\ UNCHANGED <<users, tokens, now, verified, mail, emailed>>

\* lines 30-38: fall back to the user of the normalized payload.email
JvFindByEmail(p) ==
  /\ pc[p] = "jv_findByEmail"
  /\ LET c == call[p]
         user == FindUserByEmail(users, ToLowerCase(Trim(c.payload.email)))
     IN IF user # NoUser
        THEN Finish(p, [c EXCEPT !.user = user, !.result = Validated(user)])
        ELSE Goto(p, "jv_save", c)
  /\ UNCHANGED <<users, tokens, now, pre, verified, mail, emailed>>

\* lines 39-46: save a skeleton account and return it
JvSave(p) ==
  /\ pc[p] = "jv_save"
  /\ LET c == call[p]
         email == ToLowerCase(Trim(c.payload.email))
         user == NewUser(users, email, NoValue, NoValue, NoValue)
     IN IF EmailTaken(users, email)
        THEN /\ Finish(p, [c EXCEPT !.error = UniqueViolation])
             /\ UNCHANGED users
        ELSE /\ users' = Append(users, user)
             /\ Finish(p, [c EXCEPT !.user = user, !.result = Validated(user)])
  /\ UNCHANGED <<tokens, now, pre, verified, mail, emailed>>

\* the response has been delivered
Return(p) ==
  /\ pc[p] = "done"
  /\ pre' = NoSnapshot
  /\ pc' = [pc EXCEPT ![p] = "idle"]
  /\ call' = [call EXCEPT ![p] = IdleCall]
  /\ emailed' = IF Delivered(call[p])
                THEN emailed \cup { <<call[p].user.email, call[p].sent[1].code>> }
                ELSE emailed
  /\ UNCHANGED <<users, tokens, now, verified, mail>>

Tick(limit) ==
  /\ now < limit
  /\ now' = now + 1
  /\ UNCHANGED <<users, tokens, pc, call, pre, verified, mail, emailed>>

\* one step of request p, its arguments and the outcomes of the mail
\* transport drawn from the given sets
Step(p, emails, metadatas, mailOutcomes) ==
  \/ \E email \in emails, metadata \in metadatas :
       StartRequest(p, email, metadata)
  \/ RqCreateUser(p)
  \/ RqUpdateProfile(p)
  \/ RqUpdateLanguage(p)
  \/ RqFindToken(p, mailOutcomes)
  \/ GenRevoke(p)
  \/ GenCode(p)
  \/ GenSave(p, mailOutcomes)
  \/ \E email \in emails, code \in AllCodes : StartVerify(p, email, code)
  \/ VfFindToken(p)
  \/ VfSave(p)
  \/ \E dto \in CreateUserDtos(emails) : StartSignup(p, dto)
  \/ SuSave(p)
  \/ \E payload \in JwtPayloads(emails) : StartValidate(p, payload)
  \/ JvFindByEmail(p)
  \/ JvSave(p)
  \/ Return(p)

\* requests run one after another: a single request is in flight
NextSeq == Tick(MaxTime) \/ Step(1, RawEmails, MetadataInputs, BOOLEAN)

SpecSeq == Init /\ [][NextSeq]_vars

\* requests for one account, spelled two ways, interleave at every await
SameAccountEmails == { <<"a">>, <<" ", "A">> }

ProfileInputs == { Metadata(<<"J">>, <<"J">>, <<" ", "E">>) }

Next ==
  \/ Tick(MaxRaceTime)
  \/ \E p \in Procs : Step(p, SameAccountEmails, ProfileInputs, {TRUE})

Spec == Init /\ [][Next]_vars

\* requests for one account, one after another, with profile metadata that
\* names, renames and leaves out each field
ProfileUpdates ==
  { NoMetadata,
    Metadata(<<" ">>, <<"J">>, NoValue),
    Metadata(<<"J">>, <<"J">>, <<"P">>),
    Metadata(<<"K", " ">>, NoValue, <<" ", "E">>),
    Metadata(NoValue, <<" ", "K">>, <<" ">>) }

NextProfile == Tick(MaxTime) \/ Step(1, {<<"a">>}, ProfileUpdates, {TRUE})

SpecProfile == Init /\ [][NextProfile]_vars

\* --------------------------------------------------- createUniqueCode loop
\* One pass of the for loop of createUniqueCode, lines 330-338: draw a
\* candidate and await exists().  A candidate that is not in the table is
\* returned; the tenth candidate that is in it leaves the loop, and line 341
\* returns generateCode(8) without another query.
CuCheck(p) ==
  /\ pc[p] = "gen_code"
  /\ call[p].attempt < maxTries
  /\ \E candidate \in generateCode(defaultCodeLength) :
       LET c == [call[p] EXCEPT !.attempt = @ + 1, !.candidate = candidate]
       IN IF ~CodeExists(tokens, candidate)
          THEN Goto(p, "gen_save", [c EXCEPT !.code = candidate])
          ELSE IF c.attempt < maxTries
          THEN Goto(p, "gen_code", c)
          ELSE \E code \in generateCode(fallbackCodeLength) :
                 Goto(p, "gen_save", [c EXCEPT !.code = code])
  /\ UNCHANGED <<users, tokens, now, pre, verified, mail, emailed>>

\* the steps of request p with the loop of createUniqueCode taken pass by pass
StepCode(p, emails, metadatas, mailOutcomes) ==
  \/ \E email \in emails, metadata \in metadatas :
       StartRequest(p, email, metadata)
  \/ RqCreateUser(p)
  \/ RqUpdateProfile(p)
  \/ RqUpdateLanguage(p)
  \/ RqFindToken(p, mailOutcomes)
  \/ GenRevoke(p)
  \/ CuCheck(p)
  \/ GenSave(p, mailOutcomes)
  \/ \E email \in emails, code \in AllCodes : StartVerify(p, email, code)
  \/ VfFindToken(p)
  \/ VfSave(p)
  \/ \E dto \in CreateUserDtos(emails) : StartSignup(p, dto)
  \/ SuSave(p)
  \/ Return(p)

NextCode ==
  \/ Tick(MaxRaceTime)
  \/ \E p \in Procs : StepCode(p, SameAccountEmails, ProfileInputs, {TRUE})

SpecCode == Init /\ [][NextCode]_vars

\* ------------------------------------------------------------ MailService
\* The environment the ConfigService reads.  An unset variable is the empty
\* string, or 0 for the port.
MailEnvs ==
  [USE_MAILJET : {"", "true", "false"},
   NODE_ENV : {"", "production", "development"},
   MAILJET_API_KEY : {<<>>, <<"k">>},
   MAILJET_API_SECRET : {<<>>, <<"s">>},
   SMTP_HOST : {<<>>, <<" ">>, <<"h">>},
   SMTP_PORT : {0, 587},
   SMTP_USER : {<<>>, <<"u">>},
   SMTP_PASS : {<<>>, <<"p">>},
   CONTACT_FORM_SEND_ACK : {"", "false"}]

\* getFirstNonEmpty, lines 581-592: the trimmed value, undefined when blank
getFirstNonEmpty(value) == IF Trim(value) # <<>> THEN Trim(value) ELSE NoValue

\* MailjetService constructor, lines 22-37: the client, or null
mailjet(env) == env.MAILJET_API_KEY # <<>> /\ env.MAILJET_API_SECRET # <<>>

\* MailService constructor, lines 74-115: host && port && user && pass
transporter(env) ==
  /\ getFirstNonEmpty(env.SMTP_HOST) # NoValue
  /\ env.SMTP_PORT # 0
  /\ getFirstNonEmpty(env.SMTP_USER) # NoValue
  /\ getFirstNonEmpty(env.SMTP_PASS) # NoValue

\* lines 186-188: config.get('USE_MAILJET', 'false') === 'true'
\*                || config.get('NODE_ENV') === 'production'
useMailjet(env) ==
  \/ (IF env.USE_MAILJET = "" THEN "false" ELSE env.USE_MAILJET) = "true"
  \/ env.NODE_ENV = "production"

MailjetFailed == "Error: Failed to send email via Mailjet"

\* what a send did: the backend it went to and the error it threw
Sent(via, error) == [via |-> via, error |-> error]

NothingSent == Sent("none", "none")

\* MailjetService.sendEmail, lines 42-86: false when the client is null or
\* the provider does not report success
sendEmail(env, delivered) == mailjet(env) /\ delivered

\* MailService.sendLoginTokenEmail, lines 197-253
sendLoginTokenEmail(env, delivered) ==
  IF useMailjet(env)
  THEN IF sendEmail(env, delivered) THEN Sent("mailjet", "none")
       ELSE Sent("mailjet", MailjetFailed)
  ELSE IF transporter(env)
  THEN IF delivered THEN Sent("smtp", "none") ELSE Sent("smtp", MailFailed)
  ELSE Sent("console", "none")

\* lines 183-184: config.get('CONTACT_FORM_SEND_ACK', 'true') !== 'false'
contactAcknowledgementEnabled(env) ==
  (IF env.CONTACT_FORM_SEND_ACK = "" THEN "true"
   ELSE env.CONTACT_FORM_SEND_ACK) # "false"

MailjetNotificationFailed ==
  "Error: Failed to send contact form notification via Mailjet"

MailjetAcknowledgementFailed ==
  "Error: Failed to send contact form acknowledgement via Mailjet"

\* MailService.sendContactFormNotification, lines 335-393
sendContactFormNotification(env, delivered) ==
  IF useMailjet(env)
  THEN IF sendEmail(env, delivered) THEN Sent("mailjet", "none")
       ELSE Sent("mailjet", MailjetNotificationFailed)
  ELSE IF transporter(env)
  THEN IF delivered THEN Sent("smtp", "none") ELSE Sent("smtp", MailFailed)
  ELSE Sent("console", "none")

\* MailService.sendContactFormAcknowledgement, lines 395-442
sendContactFormAcknowledgement(env, delivered) ==
  IF ~contactAcknowledgementEnabled(env) THEN Sent("disabled", "none")
  ELSE IF useMailjet(env)
  THEN IF sendEmail(env, delivered) THEN Sent("mailjet", "none")
       ELSE Sent("mailjet", MailjetAcknowledgementFailed)
  ELSE IF transporter(env)
  THEN IF delivered THEN Sent("smtp", "none") ELSE Sent("smtp", MailFailed)
  ELSE Sent("console", "none")

\* one call of a contact mail method, as the request records it
ContactMail(kind, outcome) ==
  [kind |-> kind, via |-> outcome.via, error |-> outcome.error]

AcknowledgementRaised(outcome) == outcome.error

\* ContactService.handleContactSubmission, lines 39-44: the catch logs the
\* error of the acknowledgement and the handler returns
AcknowledgementCaught(outcome) == "none"

\* the services as constructed from one environment
InitMail ==
  /\ users = <<>>
  /\ tokens = <<>>
  /\ now = 0
  /\ pc = [p \in Procs |-> "idle"]
  /\ call = [p \in Procs |-> IdleCall]
  /\ pre = NoSnapshot
  /\ verified = {}
  /\ mail \in [env : MailEnvs, outcome : {NothingSent}]
  /\ emailed = {}

\* one call of sendLoginTokenEmail; delivered is what the backend does with
\* a mail that reaches it
SendLoginTokenEmail(delivered) ==
  /\ mail # NoMailer
  /\ mail' = [mail EXCEPT !.outcome = sendLoginTokenEmail(mail.env, delivered)]
  /\ UNCHANGED <<users, tokens, now, pc, call, pre, verified, emailed>>

\* ContactController.submit -> ContactService.handleContactSubmission,
\* lines 31-35
StartContact(p) ==
  /\ pc[p] = "idle"
  /\ mail # NoMailer
  /\ Goto(p, "ct_notify", [IdleCall EXCEPT !.op = "contact"])
  /\ UNCHANGED <<users, tokens, now, pre, verified, mail, emailed>>

\* line 37: await sendContactFormNotification(submission), not caught
CtNotify(p, delivered) ==
  /\ pc[p] = "ct_notify"
  /\ LET c == call[p]
         outcome == sendContactFormNotification(mail.env, delivered)
         sent == Append(c.sent, ContactMail("contact-notification", outcome))
     IN IF outcome.error # "none"
        THEN Finish(p, [c EXCEPT !.sent = sent, !.error = outcome.error])
        ELSE Goto(p, "ct_ack", [c EXCEPT !.sent = sent])
  /\ UNCHANGED <<users, tokens, now, pre, verified, mail, emailed>>

\* lines 39-45 and ContactController.submit lines 108-111
CtAck(p, delivered) ==
  /\ pc[p] = "ct_ack"
  /\ LET c == call[p]
         outcome == sendContactFormAcknowledgement(mail.env, delivered)
         sent == Append(c.sent, ContactMail("contact-acknowledgement", outcome))
         error == AcknowledgementCaught(outcome)
     IN Finish(p, [c EXCEPT
          !.sent = sent, !.error = error,
          !.result = IF error = "none" THEN [message |-> "accepted"]
                     ELSE NoResult])
  /\ UNCHANGED <<users, tokens, now, pre, verified, mail, emailed>>

NextMail ==
  \/ \E delivered \in BOOLEAN : SendLoginTokenEmail(delivered)
  \/ StartContact(1)
  \/ \E delivered \in BOOLEAN : CtNotify(1, delivered)
  \/ \E delivered \in BOOLEAN : CtAck(1, delivered)
  \/ Return(1)

SpecMail == InitMail /\ [][NextMail]_vars

\* ----------------------------------------------------------------- claims
\* what the claims say of a string, a record or a response
TrimmedLowerCased(s) == ToLowerCase(Trim(s))

NonBlank(v) == v # NoValue /\ Trim(v) # <<>>

Unrevoked(t) == ~t.revoked
Unconsumed(t) == t.consumedAt = Null
Active(t) == Unrevoked(t) /\ Unconsumed(t)

Unauthorized == { InvalidCodeOrEmail, CodeAlreadyUsed, CodeExpired }

\* the request that runs alone under SpecSeq, and what it found when it started
seq == call[1]
seqDone == pc[1] = "done"
seqUser == FindUserByEmail(pre.users, TrimmedLowerCased(seq.email))

OwnCodes(table, userId) == { t \in Rows(table) : t.userId = userId }

\* C1: with requests that do not overlap, every user has at most one login
\* code that is neither revoked nor consumed.
C1_AtMostOneActiveCode ==
  \A u \in Rows(users) :
    Cardinality({ t \in OwnCodes(tokens, u.id) : Active(t) }) <= 1

\* a user holds two codes: the older one was revoked when the newer was minted
C1_Witness ==
  \E u \in Rows(users) :
    /\ Cardinality(OwnCodes(tokens, u.id)) = 2
    /\ \E t \in OwnCodes(tokens, u.id) : Active(t)
    /\ \E t \in OwnCodes(tokens, u.id) : t.revoked /\ Unconsumed(t)

\* C2: a verifyCode that starts after a verifyCode with the same email and
\* code has succeeded fails with Unauthorized and issues no session token.
C2_SecondVerifyFails ==
  \A p \in Procs :
    (pc[p] = "done" /\ call[p].op = "verify" /\ call[p].replay)
      => call[p].error \in Unauthorized /\ call[p].result = NoResult

C2_Witness ==
  \E p \in Procs :
    /\ pc[p] = "done" /\ call[p].op = "verify" /\ call[p].replay
    /\ call[p].error \in Unauthorized

\* the record of the code presented to verifyCode, when the user resolved
\* from the email owned it as the request started
seqPresented ==
  { t \in Rows(pre.tokens) : seqUser # NoUser /\ t.userId = seqUser.id
                             /\ t.code = seq.code }

\* C3: verifyCode of an unrevoked, unconsumed code whose expiry is earlier
\* than the time of the call fails with "expired" and leaves it unconsumed.
C3_ExpiredCodeRejected ==
  (seqDone /\ seq.op = "verify")
    => \A t \in seqPresented :
         (Active(t) /\ t.expiresAt < seq.readAt)
           => seq.error = CodeExpired /\ seq.result = NoResult
              /\ tokens = pre.tokens

C3_Witness ==
  /\ seqDone /\ seq.op = "verify" /\ seq.error = CodeExpired
  /\ \E t \in seqPresented : Active(t) /\ t.expiresAt < seq.readAt

\* the unrevoked, unconsumed codes the user held as requestCode started whose
\* expiry is later than the time the request read
seqValidCodes ==
  { t \in Rows(pre.tokens) : seqUser # NoUser /\ t.userId = seqUser.id
                             /\ Active(t) /\ t.expiresAt > seq.readAt }

\* C4: requestCode for a user who holds a valid code leaves the code table
\* as it was, sends that code again as a reminder and reports the reuse.
C4_ValidCodeReused ==
  (seqDone /\ seq.op = "request")
    => \A t \in seqValidCodes :
         /\ tokens = pre.tokens
         /\ seq.error = "none"
         /\ Len(seq.sent) >= 1
         /\ seq.sent[1].kind = "login-code" /\ seq.sent[1].code = t.code
         /\ seq.sent[1].to = seqUser.email /\ seq.sent[1].isReminder
         /\ seq.result = [codeSent |-> FALSE, existingTokenValid |-> TRUE,
                          validUntil |-> t.expiresAt,
                          resentExistingToken |-> TRUE]

C4_Witness ==
  /\ seqDone /\ seq.op = "request" /\ seqValidCodes # {}
  /\ seq.result # NoResult /\ seq.result.resentExistingToken
  /\ seq.sent[1].ok

seqHasBothNames ==
  /\ seq.metadata # NoMetadata
  /\ NonBlank(seq.metadata.firstName) /\ NonBlank(seq.metadata.lastName)

\* C5: requestCode for an email without an account, given both names, creates
\* one user with the normalized email; it then mints one code for that user,
\* mails it and returns codeSent=true, resentExistingToken=false.  The only
\* other outcomes are the failures of the store or of the mail transport:
\* the insert of the code is rejected, or the code is minted and the mail fails.
C5_NewAccountGetsCode ==
  (seqDone /\ seq.op = "request" /\ seqUser = NoUser /\ seqHasBothNames)
    => /\ Len(users) = Len(pre.users) + 1
       /\ SubSeq(users, 1, Len(pre.users)) = pre.users
       /\ users[Len(users)].email = TrimmedLowerCased(seq.email)
       /\ SubSeq(tokens, 1, Len(pre.tokens)) = pre.tokens
       /\ seq.error \in {"none", MailFailed, UniqueViolation}
       /\ seq.error = UniqueViolation => tokens = pre.tokens /\ seq.sent = <<>>
       /\ seq.error # UniqueViolation =>
            /\ Len(tokens) = Len(pre.tokens) + 1
            /\ tokens[Len(tokens)].userId = Len(users)
            /\ Active(tokens[Len(tokens)])
            /\ Len(seq.sent) >= 1
            /\ seq.sent[1].kind = "login-code"
            /\ seq.sent[1].code = tokens[Len(tokens)].code
            /\ seq.sent[1].to = TrimmedLowerCased(seq.email)
            /\ ~seq.sent[1].isReminder
            /\ seq.sent[1].ok = (seq.error = "none")
       /\ seq.error = "none" =>
            /\ seq.result.codeSent
            /\ ~seq.result.resentExistingToken

C5_Witness ==
  /\ seqDone /\ seq.op = "request" /\ seqUser = NoUser /\ seqHasBothNames
  /\ seq.error = "none" /\ seq.result.codeSent
  /\ seq.email # TrimmedLowerCased(seq.email)

\* C6: requestCode for an email without an account, without both names,
\* fails with the "no account" error, writes nothing and sends nothing.
C6_NoAccountNoProfile ==
  (seqDone /\ seq.op = "request" /\ seqUser = NoUser /\ ~seqHasBothNames)
    => /\ seq.error = NoAccount
       /\ seq.result = NoResult
       /\ users = pre.users /\ tokens = pre.tokens
       /\ seq.sent = <<>>

C6_Witness ==
  /\ seqDone /\ seq.op = "request" /\ seqUser = NoUser
  /\ seq.metadata # NoMetadata /\ ~seqHasBothNames
  /\ seq.error = NoAccount

\* what the caller of a request sees
Response(c) == [error |-> c.error, result |-> c.result]

\* C7: verifyCode for an email without an account, and verifyCode for an
\* account with a code that matches none of its unrevoked records, end in one
\* and the same response, "Nieprawidlowy kod lub e-mail.", and write nothing.
C7_SameErrorForUnknownEmailAndWrongCode ==
  (seqDone /\ seq.op = "verify"
     /\ (seqUser = NoUser \/ \A t \in seqPresented : t.revoked))
    => /\ Response(seq) = [error |-> InvalidCodeOrEmail, result |-> NoResult]
       /\ users = pre.users /\ tokens = pre.tokens

\* an email without an account is verified with the active code of an account
C7_Witness ==
  /\ seqDone /\ seq.op = "verify" /\ seqUser = NoUser
  /\ \E t \in Rows(tokens) : t.code = seq.code /\ Active(t)
  /\ seq.error = InvalidCodeOrEmail

\* C8: the user a request holds is the one whose email is the trimmed,
\* lower-cased spelling of the email it was given, and no two user rows have
\* the same trimmed, lower-cased email.
C8_OneAccountPerNormalizedEmail ==
  /\ \A i, j \in 1..Len(users) :
       TrimmedLowerCased(users[i].email) = TrimmedLowerCased(users[j].email)
         => i = j
  /\ \A p \in Procs :
       call[p].user # NoUser
         => /\ call[p].user.email = TrimmedLowerCased(call[p].email)
            /\ call[p].user.id <= Len(users)
            /\ users[call[p].user.id].email = call[p].user.email

\* two requests in flight, given two spellings, hold the same user row
C8_Witness ==
  /\ call[1].user # NoUser /\ call[2].user # NoUser
  /\ call[1].email # call[2].email
  /\ call[1].user.id = call[2].user.id
  /\ call[1].op = "request" /\ call[2].op = "verify"

\* C9: verifyCode with the owner's email and a code that an earlier
\* verification consumed fails with "Kod zostal juz wykorzystany."
C9_ConsumedCodeReportedAsUsed ==
  (seqDone /\ seq.op = "verify"
     /\ \E t \in seqPresented : t.consumedAt # Null)
    => seq.error = CodeAlreadyUsed

\* C10: a code row only moves from active to consumed or from active to
\* revoked: a row revoked without being consumed is never consumed later,
\* and a row that is consumed or revoked is never active again.
C10_CodeStateMachine ==
  [][\A i \in 1..Len(tokens) :
       /\ (tokens[i].revoked /\ Unconsumed(tokens[i]))
            => Unconsumed(tokens'[i])
       /\ ~Active(tokens[i]) => ~Active(tokens'[i])]_vars

\* C11: every code row with a consumed timestamp is also revoked, requests
\* interleaved or not: a verification writes both in one save.
C11_ConsumedIsRevoked ==
  \A t \in Rows(tokens) : t.consumedAt # Null => t.revoked

\* a verification has consumed a code while another request was in flight
C11_Witness ==
  /\ \E t \in Rows(tokens) : t.consumedAt # Null /\ t.revoked
  /\ \E p \in Procs : pc[p] = "done" /\ call[p].op = "verify"
                        /\ call[p].result # NoResult
  /\ \E p \in Procs : pc[p] \notin {"idle", "done"}

\* the mails of one kind among those the lone request attempted
seqMails(kind) == { i \in 1..Len(seq.sent) : seq.sent[i].kind = kind }

\* C12: a requestCode whose login-code mail fails, for a new code or for a
\* re-sent one, ends in an error and returns no success result.
C12_LoginMailFailureFailsRequest ==
  (seqDone /\ seq.op = "request"
     /\ \E i \in seqMails("login-code") : ~seq.sent[i].ok)
    => seq.error # "none" /\ seq.result = NoResult

\* what requestCode returns and leaves in the tables once it has mailed the
\* code, read off the mails it attempted and the tables it started from;
\* nothing here reads the outcome of the admin notification
seqRequestOutcome ==
  LET login == seq.sent[1]
      old == Len(pre.tokens)
  IN /\ seq.error = "none"
     /\ \A i \in 1..Len(pre.users) :
          i # seq.user.id => users[i] = pre.users[i]
     /\ Len(users) = IF seqUser = NoUser THEN Len(pre.users) + 1
                     ELSE Len(pre.users)
     /\ users[seq.user.id] = seq.user
     /\ IF login.isReminder
        THEN /\ tokens = pre.tokens
             /\ \E t \in seqValidCodes :
                  /\ t.code = login.code
                  /\ seq.result = [codeSent |-> FALSE,
                                   existingTokenValid |-> TRUE,
                                   validUntil |-> t.expiresAt,
                                   resentExistingToken |-> TRUE]
        ELSE /\ Len(tokens) = old + 1
             /\ SubSeq(tokens, 1, old) = RevokeActive(pre.tokens, seq.user.id)
             /\ tokens[old + 1].code = login.code
             /\ tokens[old + 1].userId = seq.user.id
             /\ Active(tokens[old + 1])
             /\ seq.result = [codeSent |-> TRUE,
                              existingTokenValid |-> FALSE,
                              validUntil |-> tokens[old + 1].expiresAt,
                              resentExistingToken |-> FALSE]

\* C13: a requestCode that attempts the admin notification returns its
\* success result and leaves the user and code rows it would leave anyway,
\* whether the notification is delivered or fails.
C13_NotificationFailureIsSwallowed ==
  (seqDone /\ seq.op = "request" /\ seqMails("access-request") # {})
    => seqRequestOutcome

\* the notification failed, for a new code and for a reminder
C13_Witness ==
  /\ seqDone /\ seq.op = "request" /\ Len(seq.sent) = 2
  /\ seq.sent[2].kind = "access-request" /\ ~seq.sent[2].ok
  /\ seq.sent[2].action = "new-token"
  /\ seq.result # NoResult /\ seq.result.codeSent

\* C14 as stated: every requestCode that holds a user attempts exactly one
\* admin notification, 'token-reminder' exactly when it re-sent the existing
\* code and 'new-token' exactly when it minted one.
C14_AlwaysOneNotification ==
  (seqDone /\ seq.op = "request" /\ seq.user # NoUser)
    => /\ Cardinality(seqMails("access-request")) = 1
       /\ \A i \in seqMails("access-request") :
            /\ seq.sent[i].action = "token-reminder" <=> tokens = pre.tokens
            /\ seq.sent[i].action = "new-token"
                 <=> Len(tokens) = Len(pre.tokens) + 1

\* C14, amended: a requestCode attempts one admin notification when the
\* login-code mail was delivered and none otherwise; the notification says
\* 'token-reminder' exactly when the existing code was re-sent and
\* 'new-token' exactly when a new code was minted.
C14_OneNotificationAfterLoginMail ==
  (seqDone /\ seq.op = "request")
    => /\ Cardinality(seqMails("access-request")) =
            IF \E i \in seqMails("login-code") : seq.sent[i].ok THEN 1 ELSE 0
       /\ \A i \in seqMails("access-request") :
            /\ i = 2 /\ seq.sent[1].kind = "login-code"
            /\ seq.sent[i].action \in {"token-reminder", "new-token"}
            /\ seq.sent[i].action = "token-reminder"
                 <=> (seq.sent[1].isReminder /\ tokens = pre.tokens)
            /\ seq.sent[i].action = "new-token"
                 <=> (~seq.sent[1].isReminder
                      /\ Len(tokens) = Len(pre.tokens) + 1)

\* a reminder and its 'token-reminder' notification
C14_Witness ==
  /\ seqDone /\ seq.op = "request" /\ Len(seq.sent) = 2
  /\ seq.sent[1].isReminder /\ seq.sent[1].ok
  /\ seq.sent[2].action = "token-reminder"
  /\ tokens = pre.tokens /\ tokens # <<>>

\* C15: verifyCode returns a session token only when the user resolved from
\* the email owned an unrevoked row of the supplied code as the call started;
\* the token's sub and email are those of that row's owner.
C15_OnlyTheOwnerVerifies ==
  (seqDone /\ seq.op = "verify" /\ seq.result # NoResult)
    => /\ seqUser # NoUser
       /\ \E t \in Rows(pre.tokens) :
            /\ t.code = seq.code /\ Unrevoked(t)
            /\ t.userId = seqUser.id
            /\ seq.result.accessToken =
                 [sub |-> t.userId, email |-> users[t.userId].email]
            /\ users[t.userId].email = TrimmedLowerCased(seq.email)
            /\ tokens[t.id].consumedAt # Null

\* the owner verifies while another user holds an active code too
C15_Witness ==
  /\ seqDone /\ seq.op = "verify" /\ seq.result # NoResult
  /\ \E t \in Rows(tokens) : t.userId # seq.result.accessToken.sub /\ Active(t)

\* C16: no two rows of the code table hold the same code, whatever the
\* interleaving of the requests that generate and insert codes.
C16_CodesAreUnique ==
  \A i, j \in 1..Len(tokens) : tokens[i].code = tokens[j].code => i = j

\* two requests drew the same code: one insert went through, the other was
\* rejected by the UNIQUE constraint
C16_Witness ==
  \E p \in Procs :
    /\ pc[p] = "done" /\ call[p].error = UniqueViolation
    /\ call[p].code # NoCode
    /\ \E t \in Rows(tokens) : t.code = call[p].code /\ t.userId = call[p].user.id

\* C19: a signup with an email whose trimmed, lower-cased spelling belongs
\* to a user fails with the Conflict error, saves no user, mints and revokes
\* no code and sends no mail.
C19_DuplicateSignupConflicts ==
  (seqDone /\ seq.op = "signup" /\ seqUser # NoUser)
    => /\ seq.error = UserExists /\ seq.result = NoResult
       /\ users = pre.users /\ tokens = pre.tokens
       /\ seq.sent = <<>>

\* the signup spells the email of a user who holds an active code differently
C19_Witness ==
  /\ seqDone /\ seq.op = "signup" /\ seqUser # NoUser
  /\ seq.email # seqUser.email
  /\ \E t \in OwnCodes(tokens, seqUser.id) : Active(t)
  /\ seq.error = UserExists

\* C17: validating a payload whose sub and whose email both name no user
\* is rejected with an Unauthorized error.
C17_UnknownUserRejected ==
  (seqDone /\ seq.op = "validate"
     /\ FindUserById(pre.users, seq.payload.sub) = NoUser
     /\ seqUser = NoUser)
    => seq.error \in Unauthorized /\ seq.result = NoResult

\* the request that takes a step
Stepping(p) == pc'[p] # pc[p]

\* C18: a step that adds or changes a row of the users table is a step of
\* requestCode or of signup, never one of verifyCode or of the validation
\* of a session token.
C18_OnlyRequestAndSignupWriteUsers ==
  [][users' # users
       => \E p \in Procs :
            Stepping(p) /\ call'[p].op \in {"request", "signup"}]_vars

\* no API credential and no SMTP setting is set
NothingConfigured(env) ==
  /\ env.MAILJET_API_KEY = <<>> /\ env.MAILJET_API_SECRET = <<>>
  /\ env.SMTP_HOST = <<>> /\ env.SMTP_PORT = 0
  /\ env.SMTP_USER = <<>> /\ env.SMTP_PASS = <<>>

\* C20: with no API credential and no SMTP setting, a login-code mail goes to
\* the console and raises no error, whatever USE_MAILJET and NODE_ENV are.
C20_UnconfiguredFallsBackToConsole ==
  (mail # NoMailer /\ mail.outcome # NothingSent
     /\ NothingConfigured(mail.env))
    => mail.outcome = Sent("console", "none")

\* the contact request and the mails it attempted
contact == call[1]
contactDone == pc[1] = "done" /\ contact.op = "contact"

\* C21: a contact submission attempts the notification first.  When the
\* notification fails the request fails with its error and the
\* acknowledgement is not attempted; when it succeeds the acknowledgement is
\* attempted next and the request succeeds whether or not that one fails.
C21_NotificationBeforeAcknowledgement ==
  contactDone
    => /\ Len(contact.sent) >= 1
       /\ contact.sent[1].kind = "contact-notification"
       /\ IF contact.sent[1].error # "none"
          THEN /\ Len(contact.sent) = 1
               /\ contact.error = contact.sent[1].error
               /\ contact.result = NoResult
          ELSE /\ Len(contact.sent) = 2
               /\ contact.sent[2].kind = "contact-acknowledgement"
               /\ contact.error = "none"
               /\ contact.result # NoResult

\* the acknowledgement failed and the request succeeded
C21_Witness ==
  /\ contactDone /\ Len(contact.sent) = 2
  /\ contact.sent[2].error # "none"
  /\ contact.error = "none" /\ contact.result # NoResult

\* the codes of a user that are unrevoked, unconsumed and not past expiry
ValidCodes(table, userId, at) ==
  { t \in OwnCodes(table, userId) : Active(t) /\ t.expiresAt > at }

\* C22: a requestCode that has passed its existing-code check and its revoke
\* inserts its code beside any code another request has inserted for the
\* user in the meantime: the insert revokes nothing, so both stay active.
C22_InsertLeavesRacingCodeActive ==
  [][\A p \in Procs :
       (pc[p] = "gen_save" /\ call[p].op = "request"
          /\ Len(tokens') = Len(tokens) + 1)
         => /\ Active(tokens'[Len(tokens')])
            /\ tokens'[Len(tokens')].userId = call[p].user.id
            /\ \A t \in OwnCodes(tokens, call[p].user.id) :
                 Active(t) => Active(tokens'[t.id])]_vars

\* two interleaved requestCode calls for one account have both completed
\* with a new code, and the account holds two valid codes
C22_Witness ==
  /\ pc[1] = "done" /\ pc[2] = "done"
  /\ call[1].op = "request" /\ call[2].op = "request"
  /\ call[1].user.id = call[2].user.id
  /\ call[1].result # NoResult /\ call[1].result.codeSent
  /\ call[2].result # NoResult /\ call[2].result.codeSent
  /\ Cardinality(ValidCodes(tokens, call[1].user.id, now)) = 2

\* a verifyCode that ran while no other request was in flight, and the rows
\* of the code it presented as it started
AloneVerify(p) ==
  pc[p] = "done" /\ call[p].op = "verify" /\ pre # NoSnapshot

PresentedBy(p) ==
  LET user == FindUserByEmail(pre.users, TrimmedLowerCased(call[p].email))
  IN { t \in Rows(pre.tokens) : user # NoUser /\ t.userId = user.id
                                /\ t.code = call[p].code }

\* C23 as stated: once a newer code has been issued to the user, verifyCode
\* of any code issued to that user before it fails.
C23_SupersededCodesFail ==
  \A p \in Procs :
    (AloneVerify(p)
       /\ \E t \in PresentedBy(p) :
            \E n \in OwnCodes(pre.tokens, t.userId) : n.id > t.id)
      => call[p].error \in Unauthorized /\ call[p].result = NoResult

\* C23, amended: the revoke step of a mint leaves every code the user holds
\* at that moment revoked; a revoked row stays revoked with its code and
\* owner; and the lookup of verifyCode never accepts a revoked row.  A code
\* that an overlapping request inserts after that revoke is not covered.
C23_CodesHeldAtRevokeFail ==
  [][/\ \A p \in Procs :
          (pc[p] = "gen_revoke" /\ pc'[p] = "gen_code")
            => \A t \in OwnCodes(tokens', call[p].user.id) :
                 /\ t.revoked
                 /\ MatchingTokens(tokens', t.userId, t.code) = {}
     /\ \A i \in 1..Len(tokens) :
          tokens[i].revoked
            => /\ tokens'[i].revoked
               /\ tokens'[i].code = tokens[i].code
               /\ tokens'[i].userId = tokens[i].userId
     /\ \A p \in Procs :
          (pc[p] = "vf_findToken" /\ pc'[p] = "vf_save")
            => ~tokens[call'[p].loginToken.id].revoked]_vars

\* a mint has superseded a code, and a verification of that code, started
\* afterwards, has failed
C23_Witness ==
  \E p \in Procs :
    /\ AloneVerify(p) /\ call[p].error = InvalidCodeOrEmail
    /\ \E t \in PresentedBy(p) :
         /\ t.revoked /\ Unconsumed(t)
         /\ \E n \in OwnCodes(pre.tokens, t.userId) : n.id > t.id /\ Active(n)

\* a code value is held by a row of the table
Present(table, code) == \E t \in Rows(table) : t.code = code

\* C24: createUniqueCode makes at most 10 uniqueness checks.  Each pass of
\* its loop makes one; a candidate that is not in the table at its check is
\* returned at once and is a 6-digit code, a candidate that is in it sends
\* the loop to the next pass, and an 8-digit code is returned only by the
\* tenth pass, when its candidate, like the nine before it, collided.
C24_AtMostTenChecks ==
  [][\A p \in Procs :
       (pc[p] = "gen_code" /\ call'[p] # call[p])
         => LET c == call'[p]
            IN /\ c.attempt = call[p].attempt + 1
               /\ c.attempt <= 10
               /\ c.candidate[1] = 6
               /\ ~Present(tokens, c.candidate)
                    => pc'[p] = "gen_save" /\ c.code = c.candidate
               /\ (Present(tokens, c.candidate) /\ c.attempt < 10)
                    => pc'[p] = "gen_code" /\ c.code = NoCode
               /\ (Present(tokens, c.candidate) /\ c.attempt = 10)
                    => pc'[p] = "gen_save" /\ c.code[1] = 8
               /\ pc'[p] = "gen_save" => c.code \in createUniqueCode(tokens, 0)]_vars

\* ten candidates collided and the 8-digit code was returned
C24_Witness ==
  \E p \in Procs :
    /\ pc[p] = "gen_save" /\ call[p].attempt = 10
    /\ call[p].code[1] = 8 /\ Present(tokens, call[p].candidate)

\* the value a field is given: supplied and not blank
Supplied(v) == v # NoValue /\ Trim(v) # <<>>

\* what a stored field becomes: the given value, trimmed (and lower-cased
\* for the language), when one is supplied that differs from the stored one
Overwritten(stored, given) == IF Supplied(given) THEN given ELSE stored

\* C25: requestCode for an existing user leaves the user's id and email and
\* every other user row as they were; a stored name or language changes only
\* to a supplied non-blank value (names trimmed, language trimmed and
\* lower-cased) and keeps its value when the field is absent or blank.
C25_ProfileOverwrittenOnlyBySuppliedValues ==
  (seqDone /\ seq.op = "request" /\ seqUser # NoUser)
    => LET old == seqUser
           new == users[old.id]
           raw == IF seq.raw = NoMetadata
                  THEN Metadata(NoValue, NoValue, NoValue) ELSE seq.raw
       IN /\ Len(users) = Len(pre.users)
          /\ \A i \in 1..Len(users) : i # old.id => users[i] = pre.users[i]
          /\ new.id = old.id /\ new.email = old.email
          /\ new.firstName = Overwritten(old.firstName, OptTrim(raw.firstName))
          /\ new.lastName = Overwritten(old.lastName, OptTrim(raw.lastName))
          /\ new.preferredLanguage =
               Overwritten(old.preferredLanguage,
                           IF raw.language = NoValue THEN NoValue
                           ELSE ToLowerCase(Trim(raw.language)))

\* a stored first name is replaced by a different one while the last name,
\* not supplied, and the language keep their stored values
C25_Witness ==
  /\ seqDone /\ seq.op = "request" /\ seqUser # NoUser
  /\ seqUser.firstName # NoValue
  /\ users[seqUser.id].firstName # seqUser.firstName
  /\ seqUser.lastName # NoValue
  /\ users[seqUser.id].lastName = seqUser.lastName
  /\ seq.raw.lastName = NoValue

\* a verifyCode call that has returned a session token
Succeeded(p) ==
  pc[p] = "done" /\ call[p].op = "verify" /\ call[p].result # NoResult

\* C26: of two verifyCode calls that present the same valid code and whose
\* steps interleave, at most one returns a session token.
C26_AtMostOneVerifySucceeds ==
  \A p, q \in Procs :
    (p # q /\ Succeeded(p) /\ Succeeded(q))
      => call[p].loginToken.id # call[q].loginToken.id

\* the ids of a user's codes that are neither revoked nor consumed
ActiveIds(table, userId) ==
  { t.id : t \in { r \in OwnCodes(table, userId) : Active(r) } }

\* a request or signup whose generateLoginToken raised: its insert was
\* rejected by the unique index, or its login-code mail was not sent
seqGenerateFailed ==
  /\ seqDone /\ seq.op \in {"request", "signup"}
  /\ seq.error \in {UniqueViolation, MailFailed}

\* C27: when generateLoginToken fails after it has started, the user's
\* active codes are the ones the user had before the call.
C27_FailedMintKeepsActiveCodes ==
  seqGenerateFailed
    => ActiveIds(tokens, seq.user.id) = ActiveIds(pre.tokens, seq.user.id)

\* the two failures of C27, one at a time
C27_AfterRejectedInsert ==
  (seqGenerateFailed /\ seq.error = UniqueViolation)
    => ActiveIds(tokens, seq.user.id) = ActiveIds(pre.tokens, seq.user.id)

C27_AfterFailedMail ==
  (seqGenerateFailed /\ seq.error = MailFailed)
    => ValidCodes(tokens, seq.user.id, now)
         = ValidCodes(pre.tokens, seq.user.id, now)

\* C28: a verifyCode call that fails, whatever the reason (unknown email, no
\* matching unrevoked code, already used, expired), leaves every user row and
\* every code row as it was when the call started.
C28_FailedVerifyWritesNothing ==
  (seqDone /\ seq.op = "verify" /\ seq.result = NoResult)
    => /\ seq.error \in Unauthorized
       /\ users = pre.users /\ tokens = pre.tokens

\* a wrong code is presented for a user who holds an unexpired active code,
\* and the code is still active afterwards
C28_Witness ==
  /\ seqDone /\ seq.op = "verify" /\ seq.error = InvalidCodeOrEmail
  /\ seqUser # NoUser
  /\ ValidCodes(tokens, seqUser.id, now) # {}

\* the verifyCode call presents, under some spelling of the user's email,
\* the code that the user's last completed requestCode delivered
seqEmailed == <<TrimmedLowerCased(seq.email), seq.code>> \in emailed

\* C29: after a requestCode for a user has returned successfully, with no
\* requestCode for that user since, a first verifyCode with the user's email
\* and the code that call mailed finds the code's record and, when it reads
\* the clock before the record's expiry, consumes it and returns a session
\* token for that user.
C29_EmailedCodeVerifies ==
  (seqDone /\ seq.op = "verify" /\ seqEmailed /\ ~seq.replay)
    => /\ seqUser # NoUser
       /\ \E t \in seqPresented :
            /\ Active(t)
            /\ seq.readAt < t.expiresAt
                 => /\ seq.error = "none" /\ seq.result # NoResult
                    /\ seq.result.accessToken.sub = seqUser.id
                    /\ tokens[t.id].consumedAt # Null

\* a code that requestCode mailed is verified, before its expiry, under
\* another spelling of the email than the stored one
C29_Witness ==
  /\ seqDone /\ seq.op = "verify" /\ seqEmailed /\ ~seq.replay
  /\ seq.email # TrimmedLowerCased(seq.email)
  /\ seq.result # NoResult
  /\ \E t \in seqPresented : seq.readAt < t.expiresAt

\* the request re-sent the code it found instead of minting one
seqReused ==
  /\ seq.result # NoResult
  /\ seq.result.resentExistingToken

\* C30: at the instant requestCode reads the clock, it re-sends the user's
\* existing code exactly when verifyCode, reading the same instant, would
\* not reject that code as expired; so also at the expiry timestamp itself.
C30_RequestAndVerifyAgreeOnExpiry ==
  (seqDone /\ seq.op = "request" /\ seqUser # NoUser)
    => \A t \in ExistingTokens(pre.tokens, seqUser.id) :
         seqReused <=> ~Expired(t, seq.readAt)

====
